---------------------------- MODULE Spec2Model ----------------------------
(***************************************************************************)
(* Model of server.js of keycrm-leads-checker: an Express proxy in front   *)
(* of the KeyCRM REST API.  Modelled here: the field canonicalizer         *)
(* (normalizeUaPhone, normalizeEmail, ensureArray, mapBuyer), the company  *)
(* cache (companiesCache, getCompanyById, POST /cache/clear) and the two   *)
(* paginating handlers (GET /buyers/all, GET /companies/all).              *)
(*                                                                         *)
(* JavaScript strings are sequences of one-character strings.  JavaScript  *)
(* values that reach the canonicalizer are tagged records (JStr, JNum,     *)
(* JArr, JNull); null and undefined are not told apart, the code treats    *)
(* both as falsy and never compares them.                                  *)
(***************************************************************************)
EXTENDS Integers, Sequences, FiniteSets, TLC

VARIABLES
    companiesCache, \* the Map of server.js:85, a function from keys to records
    req,            \* one record per request slot: the handler's locals
    hist,           \* history of the cache, kept for the properties only
    fin,            \* input of the canonicalizer function being applied
    fout            \* its output

vars == <<companiesCache, req, hist, fin, fout>>

---------------------------------------------------------------------------
(* JavaScript values *)

JNull == [t |-> "null", s |-> <<>>, n |-> 0, a |-> <<>>]

JStr(str) == [t |-> "str", s |-> str, n |-> 0, a |-> <<>>]

JNum(num) == [t |-> "num", s |-> <<>>, n |-> num, a |-> <<>>]

JArr(arr) == [t |-> "arr", s |-> <<>>, n |-> 0, a |-> arr]

\* Boolean(v): "", 0, null and undefined are falsy; every array is truthy.
Truthy(v) ==
    CASE v.t = "str" -> v.s # <<>>
      [] v.t = "num" -> v.n # 0
      [] v.t = "arr" -> TRUE
      [] OTHER -> FALSE

\* a || b
JOr(a, b) == IF Truthy(a) THEN a ELSE b

DigitChars == <<"0", "1", "2", "3", "4", "5", "6", "7", "8", "9">>

IsDigit(c) == \E i \in 1..10 : DigitChars[i] = c

RECURSIVE NatToStr(_)
NatToStr(num) ==
    IF num < 10 THEN <<DigitChars[num + 1]>>
    ELSE Append(NatToStr(num \div 10), DigitChars[(num % 10) + 1])

\* String(v) for a string or a non-negative integer; "" for null, which the
\* callers only reach through (v || "").
ToStr(v) ==
    CASE v.t = "str" -> v.s
      [] v.t = "num" -> NatToStr(v.n)
      [] OTHER -> <<>>

---------------------------------------------------------------------------
(* String helpers *)

IsSpace(c) == c = " "

RECURSIVE TrimLeft(_)
TrimLeft(str) ==
    IF str # <<>> /\ IsSpace(Head(str)) THEN TrimLeft(Tail(str)) ELSE str

RECURSIVE TrimRight(_)
TrimRight(str) ==
    IF str # <<>> /\ IsSpace(str[Len(str)])
    THEN TrimRight(SubSeq(str, 1, Len(str) - 1))
    ELSE str

\* String.prototype.trim
Trim(str) == TrimRight(TrimLeft(str))

\* String.prototype.startsWith
StartsWith(str, pre) ==
    /\ Len(str) >= Len(pre)
    /\ SubSeq(str, 1, Len(pre)) = pre

AllDigits(str) == \A i \in 1..Len(str) : IsDigit(str[i])

\* s.replace(/[\s()-]/g, "")
StripSeparators(str) ==
    SelectSeq(str, LAMBDA c : ~(IsSpace(c) \/ c = "(" \/ c = ")" \/ c = "-"))

\* /^380\d{9}$/.test(s)
Matches380(str) ==
    /\ Len(str) = 12
    /\ StartsWith(str, <<"3", "8", "0">>)
    /\ AllDigits(str)

\* /^0\d{9}$/.test(s)
Matches0(str) ==
    /\ Len(str) = 10
    /\ str[1] = "0"
    /\ AllDigits(str)

UpperChars == <<"A", "B", "C", "F", "M", "O", "R">>

LowerChars == <<"a", "b", "c", "f", "m", "o", "r">>

ToLowerChar(c) ==
    IF \E i \in 1..Len(UpperChars) : UpperChars[i] = c
    THEN LowerChars[CHOOSE i \in 1..Len(UpperChars) : UpperChars[i] = c]
    ELSE c

\* String.prototype.toLowerCase over the letters the inputs use
ToLowerCase(str) == [i \in 1..Len(str) |-> ToLowerChar(str[i])]

---------------------------------------------------------------------------
(* Field canonicalizer: server.js 32-56, 113-146 *)

\* mutant: the international 00 prefix is left as written
ZeroZeroKept(str) == str

\* the prefix step of normalizeUaPhone (line 46)
ZeroZeroToPlus(str) ==
    IF StartsWith(str, <<"0", "0">>)
    THEN <<"+">> \o SubSeq(str, 3, Len(str))
    ELSE str

\* mutant: the national form gets the country code without its plus sign
PhoneRulesNoPlus(str) ==
    IF StartsWith(str, <<"+", "3", "8", "0">>) THEN str
    ELSE IF Matches380(str) THEN <<"+">> \o str
    ELSE IF Matches0(str) THEN <<"3", "8">> \o str
    ELSE str

\* mutant: the national form gets the whole country prefix, its 0 kept
PhoneRulesKeepZero(str) ==
    IF StartsWith(str, <<"+", "3", "8", "0">>) THEN str
    ELSE IF Matches380(str) THEN <<"+">> \o str
    ELSE IF Matches0(str) THEN <<"+", "3", "8", "0">> \o str
    ELSE str

\* the decision chain of normalizeUaPhone on the cleaned string (lines 47-51)
PhoneRules(str) ==
    IF StartsWith(str, <<"+", "3", "8", "0">>) THEN str
    ELSE IF Matches380(str) THEN <<"+">> \o str
    ELSE IF Matches0(str) THEN <<"+", "3", "8">> \o str
    ELSE str

normalizeUaPhone(phone) ==
    LET s0 == Trim(ToStr(JOr(phone, JStr(<<>>))))
    IN  IF s0 = <<>> THEN <<>>
        ELSE PhoneRules(ZeroZeroToPlus(StripSeparators(s0)))

normalizeEmail(email) == ToLowerCase(Trim(ToStr(JOr(email, JStr(<<>>)))))

\* Array.isArray(v) ? v.filter(Boolean) : v ? [v] : []
ensureArray(v) ==
    IF v.t = "arr" THEN SelectSeq(v.a, Truthy)
    ELSE IF Truthy(v) THEN <<v>>
    ELSE <<>>

NonEmpty(str) == str # <<>>

TelKey(p) == <<"t", "e", "l", ":">> \o p

EmailKey(e) == <<"e", "m", "a", "i", "l", ":">> \o e

\* mutant: the email keys come first
DedupeEmailsFirst(phones, emails) ==
    [i \in 1..Len(emails) |-> <<"e", "m", "a", "i", "l", ":">> \o emails[i]]
        \o [i \in 1..Len(phones) |-> <<"t", "e", "l", ":">> \o phones[i]]

\* the dedupe array of mapBuyer (lines 133-136)
DedupeOf(phones, emails) ==
    [i \in 1..Len(phones) |-> TelKey(phones[i])]
        \o [i \in 1..Len(emails) |-> EmailKey(emails[i])]

\* the name expression of mapBuyer (lines 116-120)
NameOf(b) ==
    IF Truthy(b.name) THEN b.name
    ELSE IF Truthy(b.full_name) THEN b.full_name
    ELSE IF Truthy(b.fullname) THEN b.fullname
    ELSE IF Truthy(b.first_name) /\ Truthy(b.last_name)
         THEN JStr(Trim(ToStr(b.first_name) \o <<" ">> \o ToStr(b.last_name)))
         ELSE JStr(<<>>)

\* the first occurrence of each element, in order
RECURSIVE FirstSeen(_)
FirstSeen(sq) ==
    IF sq = <<>> THEN <<>>
    ELSE LET init == FirstSeen(SubSeq(sq, 1, Len(sq) - 1))
             last == sq[Len(sq)]
         IN  IF \E i \in 1..Len(init) : init[i] = last
             THEN init ELSE Append(init, last)

\* mutant: equal phones are merged
mapBuyerMergePhones(b) ==
    LET rawPhones == ensureArray(JOr(b.phone, b.phones))
        rawEmails == ensureArray(JOr(b.email, b.emails))
        phones == FirstSeen(SelectSeq([i \in 1..Len(rawPhones) |->
                                normalizeUaPhone(rawPhones[i])], NonEmpty))
        emails == SelectSeq([i \in 1..Len(rawEmails) |->
                                normalizeEmail(rawEmails[i])], NonEmpty)
    IN  [id        |-> JOr(JOr(b.id, b.buyer_id), JNull),
         name      |-> NameOf(b),
         phones    |-> phones,
         emails    |-> emails,
         companyId |-> JOr(b.company_id, JNull),
         dedupe    |-> DedupeOf(phones, emails)]

mapBuyer(b) ==
    LET rawPhones == ensureArray(JOr(b.phone, b.phones))
        rawEmails == ensureArray(JOr(b.email, b.emails))
        phones == SelectSeq([i \in 1..Len(rawPhones) |->
                                normalizeUaPhone(rawPhones[i])], NonEmpty)
        emails == SelectSeq([i \in 1..Len(rawEmails) |->
                                normalizeEmail(rawEmails[i])], NonEmpty)
    IN  [id        |-> JOr(JOr(b.id, b.buyer_id), JNull),
         name      |-> NameOf(b),
         phones    |-> phones,
         emails    |-> emails,
         companyId |-> JOr(b.company_id, JNull),
         dedupe    |-> DedupeOf(phones, emails)]

\* a raw buyer with every field absent
EmptyBuyer ==
    [id |-> JNull, buyer_id |-> JNull, name |-> JNull, full_name |-> JNull,
     fullname |-> JNull, first_name |-> JNull, last_name |-> JNull,
     phone |-> JNull, phones |-> JNull, email |-> JNull, emails |-> JNull,
     company_id |-> JNull]

---------------------------------------------------------------------------
(* Company ids and company records *)

\* A company id as JSON or a route parameter carries it: the number v, the
\* decimal string of v, or no id at all.  A Map compares keys by
\* SameValueZero, so NumId(v) and StrId(v) are different keys.
NoId == [t |-> "none", v |-> 0]

NumId(v) == [t |-> "num", v |-> v]

StrId(v) == [t |-> "str", v |-> v]

\* Boolean(id): a missing id and the number 0 are falsy, "0" is truthy.
IdTruthy(k) ==
    CASE k.t = "num" -> k.v # 0
      [] k.t = "str" -> TRUE
      [] OTHER -> FALSE

\* The null a 2xx answer with an empty body decodes to (server.js:74).
NullCompany == [id |-> NoId, ver |-> 0]

Company(k, ver) == [id |-> k, ver |-> ver]

EmptyCache == [k \in {} |-> NullCompany]

\* mutant: the lookup never finds a key
CacheHasNever(cache, k) == FALSE

\* companiesCache.has(k)
CacheHas(cache, k) == k \in DOMAIN cache

\* companiesCache.set(k, c)
CacheSet(cache, k, c) ==
    [x \in DOMAIN cache \cup {k} |-> IF x = k THEN c ELSE cache[x]]

\* mutant: clear leaves the entries in place
CacheClearKeeps(cache) == cache

\* companiesCache.clear()
CacheClear(cache) == EmptyCache

\* mutant: the priming loop leaves an entry that is already there
RECURSIVE PrimeCacheKeepsOld(_, _)
PrimeCacheKeepsOld(cache, raw) ==
    IF raw = <<>> THEN cache
    ELSE PrimeCacheKeepsOld(IF IdTruthy(Head(raw).id)
                                 /\ ~CacheHas(cache, Head(raw).id)
                            THEN CacheSet(cache, Head(raw).id, Head(raw))
                            ELSE cache,
                            Tail(raw))

\* the priming loop of /companies/all (lines 233-237)
RECURSIVE PrimeCache(_, _)
PrimeCache(cache, raw) ==
    IF raw = <<>> THEN cache
    ELSE PrimeCache(IF IdTruthy(Head(raw).id)
                    THEN CacheSet(cache, Head(raw).id, Head(raw))
                    ELSE cache,
                    Tail(raw))

\* A decoded response body: a bare array of records, an object carrying them
\* under data or under items, or an object with neither.
Json(shape, recs) == [shape |-> shape, recs |-> recs]

\* toArray (lines 35-40)
toArray(j) ==
    IF j.shape = "array" THEN j.recs
    ELSE IF j.shape = "data" THEN j.recs
    ELSE IF j.shape = "items" THEN j.recs
    ELSE <<>>

---------------------------------------------------------------------------
(* Pagination: GET /buyers/all (313-368) and GET /companies/all (204-257) *)

\* The hard page caps of the two loops, 1000 and 100 in the code, scaled
\* down so that a run can reach them.
BuyersPageCap == 4

CompaniesPageCap == 3

BuyersDefaultMax == 10000

CompaniesDefaultMax == 5000

PageCap(kind) == IF kind = "buyersAll" THEN BuyersPageCap ELSE CompaniesPageCap

\* Number(req.query.max) || default, for an integer query; 0 stands for a
\* query that is missing, "0" or not a number.
ParseMax(kind, q) ==
    IF q # 0 THEN q
    ELSE IF kind = "buyersAll" THEN BuyersDefaultMax ELSE CompaniesDefaultMax

\* mutant: no truncation
SliceWhole(sq, end) == sq

\* acc.slice(0, end)
Slice(sq, end) ==
    LET e == IF end < 0 THEN (IF Len(sq) + end < 0 THEN 0 ELSE Len(sq) + end)
             ELSE IF end > Len(sq) THEN Len(sq) ELSE end
    IN  SubSeq(sq, 1, e)

\* mutant: the loop has no page cap
LoopCondNoCap(rec) == Len(rec.acc) < rec.max

\* mutant: the loop goes on while the count has not passed max
LoopCondLe(rec) == Len(rec.acc) <= rec.max /\ rec.page <= PageCap(rec.kind)

\* the while condition (lines 213, 323)
LoopCond(rec) == Len(rec.acc) < rec.max /\ rec.page <= PageCap(rec.kind)

\* res.json(...) after the loop (lines 247-252, 353-363)
RespondAll(rec, cache) ==
    LET cut == Slice(rec.acc, rec.max)
    IN  IF rec.kind = "buyersAll"
        THEN [rec EXCEPT !.pc = "done", !.status = 200,
                         !.data = [i \in 1..Len(cut) |-> mapBuyer(cut[i])],
                         !.total = Len(cut),
                         !.pages_processed = rec.page - 1]
        ELSE [rec EXCEPT !.pc = "done", !.status = 200,
                         !.data = cut,
                         !.total = Len(rec.acc),
                         !.cached = Cardinality(DOMAIN cache),
                         !.pages_processed = rec.page - 1]

\* one evaluation of the loop condition: issue the next keycrm call or respond
LoopStep(rec, cache) ==
    IF LoopCond(rec)
    THEN [rec EXCEPT !.pc = "fetching", !.calls = @ + 1]
    ELSE RespondAll(rec, cache)

\* mutant: the page counter skips a page
OnPageSkip(rec, raw, cache) ==
    IF Len(raw) = 0
    THEN [RespondAll(rec, cache) EXCEPT !.outcome = "empty"]
    ELSE [rec EXCEPT !.pc = "sleeping",
                     !.acc = @ \o raw,
                     !.page = @ + 2,
                     !.log = Append(@, raw),
                     !.outcome = "ok"]

\* mutant: an empty page does not end the loop
OnPageNoBreak(rec, raw, cache) ==
    [rec EXCEPT !.pc = "sleeping",
                !.acc = @ \o raw,
                !.page = @ + 1,
                !.log = IF Len(raw) = 0 THEN @ ELSE Append(@, raw),
                !.outcome = IF Len(raw) = 0 THEN "empty" ELSE "ok"]

\* a page has been decoded (lines 223-240, 333-344): an empty one ends the
\* loop, any other is appended and the handler sleeps
OnPage(rec, raw, cache) ==
    IF Len(raw) = 0
    THEN [RespondAll(rec, cache) EXCEPT !.outcome = "empty"]
    ELSE [rec EXCEPT !.pc = "sleeping",
                     !.acc = @ \o raw,
                     !.page = @ + 1,
                     !.log = Append(@, raw),
                     !.outcome = "ok"]

\* mutant: a failed page answers with what was collected so far
OnPageFailPartial(rec) ==
    [rec EXCEPT !.pc = "done", !.status = 200, !.outcome = "fail",
                !.data = rec.acc, !.total = Len(rec.acc)]

\* keycrm threw: the catch block (lines 253-256, 364-367)
OnPageFail(rec) ==
    [rec EXCEPT !.pc = "done", !.status = 500, !.outcome = "fail"]

---------------------------------------------------------------------------
(* Company lookup: getCompanyById (88-110), GET /companies/:companyId      *)
(* (261-280), POST /cache/clear (165-178)                                  *)

\* res.json(company), or the 404 of line 272 when getCompanyById gave null
RespondCompany(rec, c) ==
    IF c = NullCompany
    THEN [rec EXCEPT !.pc = "done", !.status = 404]
    ELSE [rec EXCEPT !.pc = "done", !.status = 200, !.company = c]

\* getCompanyById up to its await: a cached id is answered at once, any
\* other id issues the keycrm call
LookupCompany(rec, cache) ==
    IF CacheHas(cache, rec.id)
    THEN RespondCompany([rec EXCEPT !.hit = TRUE], cache[rec.id])
    ELSE [rec EXCEPT !.pc = "fetching", !.calls = @ + 1]

\* mutant: a record already cached is not overwritten
CacheAfterFetchFirstWins(cache, k, c) ==
    IF CacheHas(cache, k) THEN cache ELSE CacheSet(cache, k, c)

\* the cache after keycrm resolved with c (line 103)
CacheAfterFetch(cache, k, c) == CacheSet(cache, k, c)

\* mutant: a failed fetch caches the null it returns
CacheAfterFailNull(cache, k) == CacheSet(cache, k, NullCompany)

\* the cache after keycrm threw: the catch block stores nothing (106-109)
CacheAfterFail(cache, k) == cache

\* the 404 the handler answers after the catch block returned null
OnCompanyFail(rec) ==
    [rec EXCEPT !.pc = "done", !.status = 404, !.outcome = "fail"]

---------------------------------------------------------------------------
(* State *)

NoOut == [done |-> FALSE, phone |-> <<>>, canon |-> mapBuyer(EmptyBuyer)]

NoIn == [fn |-> "none", arg |-> JNull, raw |-> EmptyBuyer, x |-> <<>>, seps |-> 0]

\* A request slot.  max, page, acc are the handler's locals; status, total,
\* cached, pages_processed, data, company, cleared are the response.  The
\* rest is history: calls counts the keycrm invocations of the request, log
\* keeps the non-empty pages it received, outcome the last upstream answer,
\* primed the id values it put in the cache since the last clear, stale
\* whether a clear ran while it was suspended, and the other flags record
\* what was known about its id when a lookup started.
IdleReq ==
    [pc |-> "idle", kind |-> "none", max |-> 0, page |-> 0, acc |-> <<>>,
     id |-> NoId, status |-> 0, total |-> 0, cached |-> 0,
     pages_processed |-> 0, data |-> <<>>, company |-> NullCompany,
     cleared |-> 0, calls |-> 0, log |-> <<>>, outcome |-> "none",
     primed |-> {}, hit |-> FALSE, afterOk |-> FALSE, afterClear |-> FALSE,
     noStore |-> FALSE, afterBulk |-> FALSE, afterFail |-> FALSE,
     stale |-> FALSE]

\* fetchedOk: ids a lookup has fetched and stored since the last clear;
\* afterClear: ids for which, since the last clear, no lookup has started and
\* no request that started after that clear has stored a record;
\* noStore: those of them that no request at all has stored since;
\* bulkDone: id values primed, since the last clear, by a /companies/all
\* that has answered;
\* failed: ids whose fetch failed while they were not cached, and that
\* nothing has stored since.
NoHist ==
    [fetchedOk |-> {}, afterClear |-> {}, noStore |-> {}, bulkDone |-> {},
     failed |-> {}]

\* the company id values in play
IdVals == {1}

NVers == 2

Slots == {"s1", "s2"}

\* the slots that may run /companies/all: one accumulation at a time
AccSlots == {"s2"}

\* the ids a route parameter can carry: always a non-empty string, so the
\* 400 of line 266 and the null of line 89 are never taken
RouteIds == {StrId(v) : v \in IdVals}

StoredIds(raw) == {raw[i].id : i \in {j \in 1..Len(raw) : IdTruthy(raw[j].id)}}

\* history bookkeeping when a /companies/all answers
BulkDone(h, rec) ==
    IF rec.pc = "done" /\ rec.status = 200 /\ rec.kind = "companiesAll"
    THEN [h EXCEPT !.bulkDone = @ \cup rec.primed]
    ELSE h

---------------------------------------------------------------------------
(* Actions *)

StartAll(r, kind, q) ==
    /\ req[r].pc = "idle"
    /\ LET rec == LoopStep([IdleReq EXCEPT !.kind = kind,
                                           !.max = ParseMax(kind, q),
                                           !.page = 1], companiesCache)
       IN  /\ req' = [req EXCEPT ![r] = rec]
           /\ hist' = BulkDone(hist, rec)
    /\ UNCHANGED <<companiesCache, fin, fout>>

PageArrives(r, json) ==
    /\ req[r].pc = "fetching"
    /\ req[r].kind \in {"buyersAll", "companiesAll"}
    /\ LET raw == toArray(json)
           cache == IF req[r].kind = "companiesAll"
                    THEN PrimeCache(companiesCache, raw)
                    ELSE companiesCache
           stored == IF req[r].kind = "companiesAll" THEN StoredIds(raw) ELSE {}
           rec == [OnPage(req[r], raw, cache) EXCEPT
                      !.primed = @ \cup {k.v : k \in stored}]
       IN  /\ companiesCache' = cache
           /\ req' = [req EXCEPT ![r] = rec]
           /\ hist' = BulkDone([hist EXCEPT
                                   !.noStore = @ \ stored,
                                   !.afterClear = IF req[r].stale THEN @
                                                  ELSE @ \ stored,
                                   !.failed = @ \ stored], rec)
    /\ UNCHANGED <<fin, fout>>

PageFails(r) ==
    /\ req[r].pc = "fetching"
    /\ req[r].kind \in {"buyersAll", "companiesAll"}
    /\ req' = [req EXCEPT ![r] = OnPageFail(req[r])]
    /\ UNCHANGED <<companiesCache, hist, fin, fout>>

DelayElapses(r) ==
    /\ req[r].pc = "sleeping"
    /\ LET rec == LoopStep(req[r], companiesCache)
       IN  /\ req' = [req EXCEPT ![r] = rec]
           /\ hist' = BulkDone(hist, rec)
    /\ UNCHANGED <<companiesCache, fin, fout>>

StartGet(r, k) ==
    /\ req[r].pc = "idle"
    /\ req' = [req EXCEPT ![r] =
                 LookupCompany([IdleReq EXCEPT
                                   !.kind = "getCompany",
                                   !.id = k,
                                   !.afterOk = k \in hist.fetchedOk,
                                   !.afterClear = k \in hist.afterClear,
                                   !.noStore = k \in hist.noStore,
                                   !.afterBulk = k.v \in hist.bulkDone,
                                   !.afterFail = k \in hist.failed],
                               companiesCache)]
    /\ hist' = [hist EXCEPT !.afterClear = @ \ {k}, !.noStore = @ \ {k}]
    /\ UNCHANGED <<companiesCache, fin, fout>>

CompanyArrives(r, c) ==
    /\ req[r].pc = "fetching"
    /\ req[r].kind = "getCompany"
    /\ companiesCache' = CacheAfterFetch(companiesCache, req[r].id, c)
    /\ req' = [req EXCEPT ![r] = RespondCompany([req[r] EXCEPT !.outcome = "ok"], c)]
    /\ hist' = [hist EXCEPT !.fetchedOk = @ \cup {req[r].id},
                            !.noStore = @ \ {req[r].id},
                            !.failed = @ \ {req[r].id}]
    /\ UNCHANGED <<fin, fout>>

CompanyFails(r) ==
    /\ req[r].pc = "fetching"
    /\ req[r].kind = "getCompany"
    /\ companiesCache' = CacheAfterFail(companiesCache, req[r].id)
    /\ req' = [req EXCEPT ![r] = OnCompanyFail(req[r])]
    /\ hist' = [hist EXCEPT
                  !.noStore = @ \ (DOMAIN companiesCache' \ DOMAIN companiesCache),
                  !.failed = IF CacheHas(companiesCache, req[r].id)
                             THEN @ ELSE @ \cup {req[r].id}]
    /\ UNCHANGED <<fin, fout>>

ClearCache(r) ==
    /\ req[r].pc = "idle"
    /\ companiesCache' = CacheClear(companiesCache)
    /\ req' = [s \in DOMAIN req |->
                 IF s = r
                 THEN [IdleReq EXCEPT !.pc = "done", !.kind = "clear",
                                      !.status = 200,
                                      !.cleared = Cardinality(DOMAIN companiesCache)]
                 ELSE [req[s] EXCEPT
                         !.primed = {},
                         !.stale = req[s].pc \in {"fetching", "sleeping"}]]
    /\ hist' = [fetchedOk |-> {}, afterClear |-> RouteIds, noStore |-> RouteIds,
                bulkDone |-> {}, failed |-> hist.failed]
    /\ UNCHANGED <<fin, fout>>

\* the response has been sent; the slot takes the next request
Finish(r) ==
    /\ req[r].pc = "done"
    /\ req' = [req EXCEPT ![r] = IdleReq]
    /\ UNCHANGED <<companiesCache, hist, fin, fout>>

---------------------------------------------------------------------------
(* The upstream: what KeyCRM may answer *)

\* GET /companies/<id>: a record of that id, which the JSON carries as a
\* number or as a string, in one of NVers snapshots, or an empty 2xx body
Answers(k) ==
    {Company(i, ver) : i \in {NumId(k.v), StrId(k.v)}, ver \in 1..NVers}
        \cup {NullCompany}

\* a page of GET /companies under concurrent load: no record or one
CachePages ==
    {Json("none", <<>>)} \cup
    {Json("data", <<Company(i, ver)>>) :
        i \in {NumId(v) : v \in IdVals} \cup RouteIds \cup {NoId},
        ver \in 1..NVers}

CacheMaxQueries == {1, 2}

\* record i of page p of GET /buyer
BuyerAt(p, i) ==
    LET b == [EmptyBuyer EXCEPT !.id = JNum(100 * p + i)]
    IN  CASE i % 5 = 1 ->
               [b EXCEPT !.phone = JStr(<<"0", "5", "0", "1", "2", "3", "4", "5", "6", "7">>), !.email = JStr(<<" ", "F", "o", "o", "@", "B", "a", "r", ".", "C", "O", "M", " ">>),
                         !.name = JStr(<<"B", "o">>)]
          [] i % 5 = 2 ->
               [b EXCEPT !.phone = JStr(<<"+", "3", "8", "0", "5", "0", "1", "2", "3", "4", "5", "6", "7">>), !.company_id = JNum(7)]
          [] i % 5 = 3 ->
               [b EXCEPT !.phones = JArr(<<JStr(<<"3", "8", "0", " ", "(", "5", "0", ")", " ", "1", "2", "3", "-", "4", "5", "-", "6", "7">>), JStr(<<>>), JNull,
                                           JNum(501234567)>>),
                         !.emails = JArr(<<JStr(<<"a", "@", "b", ".", "c">>), JStr(<<" ", "F", "o", "o", "@", "B", "a", "r", ".", "C", "O", "M", " ">>)>>)]
          [] i % 5 = 4 ->
               [b EXCEPT !.id = JNull, !.buyer_id = JNum(100 * p + i),
                         !.first_name = JStr(<<"A", "b">>), !.last_name = JStr(<<"R", "o">>),
                         !.phone = JArr(<<>>), !.phones = JArr(<<JStr(<<"0", "5", "0", "1", "2", "3", "4", "5", "6", "7">>)>>)]
          [] OTHER -> b

\* record i of page p of GET /companies: the same ids on every page, in a
\* newer snapshot on each
CompanyAt(p, i) ==
    Company(IF i % 3 = 0 THEN NoId ELSE IF i % 2 = 0 THEN StrId(i) ELSE NumId(i), p)

UpstreamPage(kind, p, n) ==
    [i \in 1..n |-> IF kind = "buyersAll" THEN BuyerAt(p, i) ELSE CompanyAt(p, i)]

AccPageSizes == {0, 1, 2, 15}

Shapes == {"array", "data", "items", "none"}

AccMaxQueries == {-1, 0, 1, 3, 20, 1000}

---------------------------------------------------------------------------
(* Specifications *)

\* the cache under concurrent requests
Init ==
    /\ companiesCache = EmptyCache
    /\ req = [r \in Slots |-> IdleReq]
    /\ hist = NoHist
    /\ fin = NoIn
    /\ fout = NoOut

Next ==
    \E r \in Slots :
        \/ \E q \in CacheMaxQueries :
              r \in AccSlots /\ StartAll(r, "companiesAll", q)
        \/ \E json \in CachePages : PageArrives(r, json)
        \/ PageFails(r)
        \/ DelayElapses(r)
        \/ \E k \in RouteIds : StartGet(r, k)
        \/ \E c \in Answers(req[r].id) : CompanyArrives(r, c)
        \/ CompanyFails(r)
        \/ ClearCache(r)
        \/ Finish(r)

Spec == Init /\ [][Next]_vars

\* one accumulation, /buyers/all or /companies/all, from an empty cache
InitAcc ==
    /\ companiesCache = EmptyCache
    /\ req = [r \in {"s1"} |-> IdleReq]
    /\ hist = NoHist
    /\ fin = NoIn
    /\ fout = NoOut

NextAcc ==
    \/ \E kind \in {"buyersAll", "companiesAll"}, q \in AccMaxQueries :
          StartAll("s1", kind, q)
    \/ \E n \in AccPageSizes, shape \in Shapes :
          PageArrives("s1", Json(shape, UpstreamPage(req["s1"].kind,
                                                     req["s1"].page, n)))
    \/ PageFails("s1")
    \/ DelayElapses("s1")

SpecAcc == InitAcc /\ [][NextAcc]_vars

LivePageSizes == {0, 1, 2}

\* a page of n records that carry an id and nothing else
BarePage(kind, p, n) ==
    [i \in 1..n |-> IF kind = "buyersAll"
                    THEN [EmptyBuyer EXCEPT !.id = JNum(100 * p + i)]
                    ELSE CompanyAt(p, i)]

\* the pending keycrm call of the accumulation resolves or rejects
UpstreamReturns ==
    \/ PageFails("s1")
    \/ \E n \in LivePageSizes, shape \in Shapes :
          PageArrives("s1", Json(shape, BarePage(req["s1"].kind,
                                                 req["s1"].page, n)))

NextAccLive ==
    \/ \E kind \in {"buyersAll", "companiesAll"}, q \in AccMaxQueries :
          StartAll("s1", kind, q)
    \/ UpstreamReturns
    \/ DelayElapses("s1")

\* one accumulation whose keycrm calls all return and whose timers all fire
SpecAccLive ==
    /\ InitAcc
    /\ [][NextAccLive]_vars
    /\ WF_vars(UpstreamReturns)
    /\ WF_vars(DelayElapses("s1"))

---------------------------------------------------------------------------
(* The canonicalizer as pure functions *)

HeadLen == 2

MaxSeps == 1

HeadDigits == {"0", "3", "5"}

SepChars == {" ", "(", ")", "-"}

DigitTail == <<"5", "0", "1", "2", "3", "4", "5", "6", "7">>

\* 9-digit subscriber numbers: HeadLen free leading digits, then a fixed tail
SubscriberNumbers ==
    {[i \in 1..9 |-> IF i <= HeadLen THEN h[i] ELSE DigitTail[i]] :
        h \in [1..HeadLen -> HeadDigits]}

\* the written forms 0X, 380X, +380X, 00380X of subscriber number x
Forms(x) ==
    {<<"0">> \o x, <<"3", "8", "0">> \o x, <<"+", "3", "8", "0">> \o x,
     <<"0", "0", "3", "8", "0">> \o x}

InsertAt(str, pos, c) ==
    SubSeq(str, 1, pos) \o <<c>> \o SubSeq(str, pos + 1, Len(str))

\* other inputs: the empty string, foreign numbers, numbers, junk
OtherPhones ==
    {JStr(<<>>), JStr(<<"0", "0", "4", "4", "1", "2", "3", "4", "5", "6", "7", "8", "9">>), JStr(<<"+", "1", " ", "2", "0", "2", "-", "5", "5", "5", "-", "0", "1", "2", "3">>), JStr(<<"1", "2", "3", "4", "5">>), JStr(<<" ", " ">>), JStr(<<"0", "0", "0", "0", "5", "0", "1", "2", "3", "4", "5", "6", "7">>),
     JNum(0), JNum(501234567), JNull}

ShortLen == 3

ShortChars == {"0", "3", "+", " ", "(", "-"}

\* every string of at most ShortLen characters over ShortChars
ShortPhones ==
    UNION {[1..n -> ShortChars] : n \in 1..ShortLen}

\* the inputs before any separator is written into them; x is the
\* subscriber number an input is a form of, <<>> for the other inputs
PhoneInputs ==
    UNION {{[fn |-> "normalizeUaPhone", arg |-> JStr(str), raw |-> EmptyBuyer,
             x |-> x, seps |-> 0] : str \in Forms(x)} :
              x \in SubscriberNumbers}
    \cup
    {[fn |-> "normalizeUaPhone", arg |-> v, raw |-> EmptyBuyer, x |-> <<>>,
      seps |-> 0] : v \in OtherPhones \cup {JStr(str) : str \in ShortPhones}}

InitPhone ==
    /\ companiesCache = EmptyCache
    /\ req = [r \in {} |-> IdleReq]
    /\ hist = NoHist
    /\ fin \in PhoneInputs
    /\ fout = NoOut

\* one more space, parenthesis or hyphen is written into the input
InsertSeparator ==
    /\ fin.fn = "normalizeUaPhone"
    /\ fin.arg.t = "str"
    /\ ~fout.done
    /\ fin.seps < MaxSeps
    /\ \E pos \in 0..Len(fin.arg.s), c \in SepChars :
          fin' = [fin EXCEPT !.arg = JStr(InsertAt(fin.arg.s, pos, c)),
                             !.seps = @ + 1]
    /\ UNCHANGED <<companiesCache, req, hist, fout>>

\* normalizeUaPhone on the input, and mapBuyer on a buyer whose phone it is
ApplyNormalize ==
    /\ fin.fn = "normalizeUaPhone"
    /\ ~fout.done
    /\ fout' = [done |-> TRUE,
                phone |-> normalizeUaPhone(fin.arg),
                canon |-> mapBuyer([EmptyBuyer EXCEPT !.phone = fin.arg])]
    /\ UNCHANGED <<companiesCache, req, hist, fin>>

NextPhone == InsertSeparator \/ ApplyNormalize

SpecPhone == InitPhone /\ [][NextPhone]_vars

PhoneVals ==
    {JNull, JStr(<<>>), JStr(<<"0", "5", "0", "1", "2", "3", "4", "5", "6", "7">>), JStr(<<"3", "8", "0", " ", "(", "5", "0", ")", " ", "1", "2", "3", "-", "4", "5", "-", "6", "7">>), JNum(501234567), JArr(<<>>),
     JArr(<<JStr(<<"+", "3", "8", "0", "5", "0", "1", "2", "3", "4", "5", "6", "7">>), JStr(<<" ", " ">>), JNull, JStr(<<"0", "5", "0", "1", "2", "3", "4", "5", "6", "7">>)>>)}

EmailVals ==
    {JNull, JStr(<<" ", "F", "o", "o", "@", "B", "a", "r", ".", "C", "O", "M", " ">>), JStr(<<" ">>), JArr(<<JStr(<<"a", "@", "b", ".", "c">>), JStr(<<>>), JStr(<<" ", "F", "o", "o", "@", "B", "a", "r", ".", "C", "O", "M", " ">>)>>)}

NameVals == {JNull, JStr(<<"B", "o">>)}

RawBuyers ==
    {[EmptyBuyer EXCEPT !.phone = ph, !.phones = phs, !.email = em,
                        !.emails = ems, !.name = nm, !.first_name = fnm,
                        !.last_name = lnm, !.id = i, !.buyer_id = JNum(9)] :
        ph \in PhoneVals, phs \in PhoneVals, em \in EmailVals, ems \in EmailVals,
        nm \in NameVals, fnm \in NameVals, lnm \in {JNull, JStr(<<"R", "o">>)},
        i \in {JNull, JNum(3)}}

InitBuyer ==
    /\ companiesCache = EmptyCache
    /\ req = [r \in {} |-> IdleReq]
    /\ hist = NoHist
    /\ fin \in {[fn |-> "mapBuyer", arg |-> JNull, raw |-> b, x |-> <<>>,
                  seps |-> 0] : b \in RawBuyers}
    /\ fout = NoOut

ApplyMapBuyer ==
    /\ fin.fn = "mapBuyer"
    /\ ~fout.done
    /\ fout' = [done |-> TRUE, phone |-> <<>>, canon |-> mapBuyer(fin.raw)]
    /\ UNCHANGED <<companiesCache, req, hist, fin>>

SpecBuyer == InitBuyer /\ [][ApplyMapBuyer]_vars

---------------------------------------------------------------------------
(* Properties of the accumulation *)

RECURSIVE Concat(_)
Concat(pages) ==
    IF pages = <<>> THEN <<>> ELSE Head(pages) \o Concat(Tail(pages))

RECURSIVE SumLens(_)
SumLens(pages) ==
    IF pages = <<>> THEN 0 ELSE Len(Head(pages)) + SumLens(Tail(pages))

Min(a, b) == IF a <= b THEN a ELSE b

IsAll(rec) == rec.kind \in {"buyersAll", "companiesAll"}

Answered(rec) == IsAll(rec) /\ rec.pc = "done" /\ rec.status = 200

\* the first num records received, as the handler returns them: canonical
\* buyers for /buyers/all, raw records for /companies/all
FirstOf(rec, num) ==
    LET cut == SubSeq(Concat(rec.log), 1, num)
    IN  IF rec.kind = "buyersAll"
        THEN [i \in 1..num |-> mapBuyer(cut[i])]
        ELSE cut

PageLens(rec) == [i \in 1..Len(rec.log) |-> Len(rec.log[i])]

\* C1: a successful /buyers/all or /companies/all with max >= 1 returns the
\* first min(max, N) records of the concatenation, in order, of the non-empty
\* pages it received, N being their total; so never more than max records.
C1_DataIsPrefix ==
    \A r \in DOMAIN req :
        (Answered(req[r]) /\ req[r].max >= 1) =>
            /\ req[r].data =
                 FirstOf(req[r], Min(req[r].max, SumLens(req[r].log)))
            /\ Len(req[r].data) <= req[r].max

\* C1's case: more records were received than max, and the data was cut
C1_Witness ==
    \E r \in DOMAIN req :
        /\ Answered(req[r])
        /\ req[r].max >= 1
        /\ SumLens(req[r].log) > req[r].max
        /\ Len(req[r].log) >= 2
        /\ Len(req[r].data) = req[r].max

\* C2: an accumulation that received k non-empty pages and then an empty one
\* ends there: it has issued k+1 page fetches, answers with every record of
\* pages 1..k and reports pages_processed = k.
C2_StopsAtEmptyPage ==
    \A r \in DOMAIN req :
        (IsAll(req[r]) /\ req[r].outcome = "empty") =>
            /\ req[r].pc = "done"
            /\ req[r].status = 200
            /\ req[r].calls = Len(req[r].log) + 1
            /\ req[r].pages_processed = Len(req[r].log)
            /\ req[r].data = FirstOf(req[r], SumLens(req[r].log))

\* C2's case: pages of 15, 15, 15, 0 records with max = 1000
C2_Witness ==
    \E r \in DOMAIN req :
        /\ req[r].kind = "buyersAll"
        /\ req[r].outcome = "empty"
        /\ req[r].max = 1000
        /\ PageLens(req[r]) = <<15, 15, 15>>
        /\ req[r].calls = 4
        /\ Len(req[r].data) = 45
        /\ req[r].pages_processed = 3

\* C3: a page fetch is issued only while the records collected so far are
\* fewer than max and the page is within the cap; and an accumulation that
\* answers without having met an empty page has issued exactly as many
\* fetches as it takes the page sizes to sum to max, or as the cap allows.
C3_StopsAtMax ==
    \A r \in DOMAIN req :
        IsAll(req[r]) =>
            /\ req[r].calls >= 1 =>
                 /\ SumLens(SubSeq(req[r].log, 1, req[r].calls - 1)) < req[r].max
                 /\ req[r].calls <= PageCap(req[r].kind)
            /\ (Answered(req[r]) /\ req[r].outcome # "empty") =>
                 /\ req[r].calls = Len(req[r].log)
                 /\ \/ SumLens(req[r].log) >= req[r].max
                    \/ req[r].calls = PageCap(req[r].kind)

\* C3's case: max = 20 and pages of 15 records: 2 fetches, 20 records
C3_Witness ==
    \E r \in DOMAIN req :
        /\ Answered(req[r])
        /\ req[r].max = 20
        /\ PageLens(req[r]) = <<15, 15>>
        /\ req[r].calls = 2
        /\ Len(req[r].data) = 20

\* C4: an accumulation one of whose page fetches failed has ended with a 500
\* that carries no record, and has issued no fetch after the failed one.
C4_FailureAborts ==
    \A r \in DOMAIN req :
        (IsAll(req[r]) /\ req[r].outcome = "fail") =>
            /\ req[r].pc = "done"
            /\ req[r].status = 500
            /\ req[r].data = <<>>
            /\ req[r].total = 0
            /\ req[r].calls = Len(req[r].log) + 1

\* C4's case: the failure came after pages had been collected
C4_Witness ==
    \E r \in DOMAIN req :
        /\ IsAll(req[r])
        /\ req[r].outcome = "fail"
        /\ req[r].status = 500
        /\ Len(req[r].log) >= 2
        /\ Len(req[r].acc) >= 2

---------------------------------------------------------------------------
(* Properties of the company cache *)

IsGet(rec) == rec.kind = "getCompany"

\* a step in which slot r starts a lookup of id k
GetStarts(r, k) ==
    /\ req[r].pc = "idle"
    /\ req'[r].kind = "getCompany"
    /\ req'[r].id = k

\* a step in which the fetch of slot r's lookup fails
GetFails(r) ==
    /\ IsGet(req[r])
    /\ req[r].pc = "fetching"
    /\ req'[r].outcome = "fail"

\* C5: a lookup of an id that a lookup has fetched and stored since the last
\* clear is answered from the cache in the same step: no keycrm call, the
\* stored record returned, the cache left as it was.
C5_HitAfterFetch ==
    [][\A r \in Slots, k \in RouteIds :
          (GetStarts(r, k) /\ k \in hist.fetchedOk) =>
              /\ req'[r].pc = "done"
              /\ req'[r].hit
              /\ req'[r].calls = 0
              /\ req'[r].company = companiesCache[k]
              /\ req'[r].status = IF companiesCache[k] = NullCompany
                                  THEN 404 ELSE 200
              /\ companiesCache' = companiesCache]_vars

\* C5's case: a second lookup of a fetched id has been answered with a record
C5_Witness ==
    \E r \in Slots :
        /\ IsGet(req[r])
        /\ req[r].afterOk
        /\ req[r].hit
        /\ req[r].status = 200
        /\ req[r].company = companiesCache[req[r].id]

\* C6 as stated: the first lookup of an id after a clear calls keycrm.
C6_Original ==
    \A r \in Slots :
        (IsGet(req[r]) /\ req[r].afterClear) =>
            (~req[r].hit /\ req[r].calls = 1)

\* C6: the first lookup of an id after a clear calls keycrm, provided nothing
\* has stored that id between the clear and the lookup.
C6_MissAfterClear ==
    \A r \in Slots :
        (IsGet(req[r]) /\ req[r].noStore) =>
            (~req[r].hit /\ req[r].calls = 1)

\* C6's case: a clear that removed entries has been answered, and the first
\* lookup after a clear has called keycrm
C6_Witness ==
    \E r, c \in Slots :
        /\ IsGet(req[r])
        /\ req[r].noStore
        /\ req[r].calls = 1
        /\ req[c].kind = "clear"
        /\ req[c].cleared >= 1

\* C7: a lookup whose fetch fails stores nothing and is answered 404, not
\* 500; and a lookup of an id whose fetch failed while the id was not
\* cached, with nothing stored under it since, calls keycrm again.
C7_FailureStoresNothing ==
    /\ [](\A r \in Slots :
             (IsGet(req[r]) /\ req[r].afterFail) =>
                 (~req[r].hit /\ req[r].calls = 1))
    /\ [][\A r \in Slots :
             GetFails(r) =>
                 /\ companiesCache' = companiesCache
                 /\ req'[r].pc = "done"
                 /\ req'[r].status = 404]_vars

\* C7's case: a fetch failed, the cache holding other entries, and the next
\* lookup of that id has called keycrm
C7_Witness ==
    \E r \in Slots :
        /\ IsGet(req[r])
        /\ req[r].afterFail
        /\ req[r].calls = 1
        /\ companiesCache # EmptyCache
        /\ ~CacheHas(companiesCache, req[r].id)

\* C8 as stated: a lookup of an id value that an answered /companies/all
\* has primed since the last clear is a cache hit with no keycrm call.
C8_BulkPrimesLookup ==
    \A r \in Slots :
        (IsGet(req[r]) /\ req[r].afterBulk) =>
            (req[r].hit /\ req[r].calls = 0)

---------------------------------------------------------------------------
(* Properties of the canonicalizer *)

\* C9: the dedupe keys of a canonical buyer are "tel:" + p for each of its
\* phones, in order, then "email:" + e for each of its emails, in order;
\* so there are as many keys as phones and emails together.
C9_DedupeKeys ==
    (fin.fn = "mapBuyer" /\ fout.done) =>
        LET c == fout.canon
            np == Len(c.phones)
        IN  /\ Len(c.dedupe) = np + Len(c.emails)
            /\ \A i \in 1..np : c.dedupe[i] = <<"t", "e", "l", ":">> \o c.phones[i]
            /\ \A j \in 1..Len(c.emails) :
                  c.dedupe[np + j] = <<"e", "m", "a", "i", "l", ":">> \o c.emails[j]

\* C9's case: a buyer with several phones and several emails
C9_Witness ==
    /\ fin.fn = "mapBuyer"
    /\ fout.done
    /\ Len(fout.canon.phones) >= 2
    /\ Len(fout.canon.emails) >= 2
    /\ Len(fout.canon.dedupe) >= 4

Normalized(x) == <<"+", "3", "8", "0">> \o x

\* the input was one of the written forms of subscriber number fin.x, and
\* came out as +380X, the only dedupe key of a buyer carrying it
SameNumber ==
    /\ fout.phone = Normalized(fin.x)
    /\ fout.canon.dedupe = <<<<"t", "e", "l", ":">> \o Normalized(fin.x)>>

\* C10 as stated: every written form of every 9-digit subscriber number X
\* normalizes to +380X and gives the dedupe key tel:+380X.
C10_Original ==
    (fin.fn = "normalizeUaPhone" /\ fout.done /\ fin.x # <<>>) => SameNumber

\* C10: every written form of a 9-digit subscriber number X that does not
\* begin with 0 normalizes to +380X and gives the dedupe key tel:+380X.
C10_SameNumberSameKey ==
    (fin.fn = "normalizeUaPhone" /\ fout.done /\ fin.x # <<>> /\ fin.x[1] # "0")
        => SameNumber

\* C10's case: the national form 0X, written with a separator
C10_Witness ==
    /\ fin.fn = "normalizeUaPhone"
    /\ fout.done
    /\ fin.x # <<>>
    /\ fin.x[1] # "0"
    /\ StripSeparators(fin.arg.s) # fin.arg.s
    /\ StripSeparators(fin.arg.s) = <<"0">> \o fin.x
    /\ SameNumber

\* +380 followed by 9 digits
IsUaPhone(p) ==
    /\ Len(p) = 13
    /\ StartsWith(p, <<"+", "3", "8", "0">>)
    /\ AllDigits(SubSeq(p, 2, 13))

\* "+" followed by a country code that is not 380
IsForeignPhone(p) ==
    /\ Len(p) >= 2
    /\ p[1] = "+"
    /\ IsDigit(p[2])
    /\ ~StartsWith(p, <<"+", "3", "8", "0">>)

\* a cleaned input none of the rewriting rules applies to
IsPassedThrough(p) ==
    /\ p[1] # "+"
    /\ ~StartsWith(p, <<"0", "0">>)
    /\ ~Matches380(p)
    /\ ~Matches0(p)

\* C11 as stated: every phone of a canonical buyer is +380 and 9 digits, or
\* "+" and a non-Ukrainian country code.
C11_Original ==
    fout.done =>
        \A i \in 1..Len(fout.canon.phones) :
            IsUaPhone(fout.canon.phones[i]) \/ IsForeignPhone(fout.canon.phones[i])

\* C11: every phone of a canonical buyer is a non-empty string without
\* space, parenthesis or hyphen that is +380 and 9 digits, or begins with
\* "+", or is a cleaned input that passed through: one that begins neither
\* with "+" nor with "00" and is neither 380 nor 0 followed by 9 digits.
C11_PhoneShapes ==
    fout.done =>
        \A i \in 1..Len(fout.canon.phones) :
            LET p == fout.canon.phones[i]
            IN  /\ p # <<>>
                /\ StripSeparators(p) = p
                /\ IsUaPhone(p) \/ p[1] = "+" \/ IsPassedThrough(p)

\* C11's case: a number without any prefix was passed through as written
C11_Witness ==
    /\ fin.fn = "normalizeUaPhone"
    /\ fout.done
    /\ Len(fout.canon.phones) = 1
    /\ IsPassedThrough(fout.canon.phones[1])
    /\ ~IsUaPhone(fout.canon.phones[1])
    /\ fout.canon.phones[1] = StripSeparators(ToStr(fin.arg))

\* the elements of the raw phone field that mapBuyer maps
RawPhonesOf(b) == ensureArray(JOr(b.phone, b.phones))

\* an element that is only blanks and separators
IsBlank(v) == StripSeparators(Trim(ToStr(v))) = <<>>

\* C12 as stated: no two phones of a canonical buyer are equal.
C12_Original ==
    (fin.fn = "mapBuyer" /\ fout.done) =>
        \A i, j \in 1..Len(fout.canon.phones) :
            i # j => fout.canon.phones[i] # fout.canon.phones[j]

\* C12: the phones of a canonical buyer are the normalized forms of the raw
\* elements that are not blank, one for each such element and in their
\* order; equal normalized phones are all kept.
C12_PhonesKeepAll ==
    (fin.fn = "mapBuyer" /\ fout.done) =>
        LET raws == SelectSeq(RawPhonesOf(fin.raw), LAMBDA v : ~IsBlank(v))
            phones == fout.canon.phones
        IN  /\ Len(phones) = Len(raws)
            /\ \A i \in 1..Len(raws) : phones[i] = normalizeUaPhone(raws[i])

\* C12's case: two raw phones that are written forms of one number
C12_Witness ==
    /\ fin.fn = "mapBuyer"
    /\ fout.done
    /\ Len(fout.canon.phones) = 2
    /\ fout.canon.phones[1] = fout.canon.phones[2]
    /\ Len(RawPhonesOf(fin.raw)) = 3

\* C13: normalizeUaPhone applied to its own result gives that result.
C13_Idempotent ==
    (fin.fn = "normalizeUaPhone" /\ fout.done) =>
        normalizeUaPhone(JStr(fout.phone)) = fout.phone

\* C13's case: an input that normalization changed, with a separator in it
C13_Witness ==
    /\ fin.fn = "normalizeUaPhone"
    /\ fout.done
    /\ fin.arg.t = "str"
    /\ fin.seps >= 1
    /\ fout.phone # <<>>
    /\ fout.phone # StripSeparators(fin.arg.s)
    /\ normalizeUaPhone(JStr(fout.phone)) = fout.phone

---------------------------------------------------------------------------
(* Termination and ordering of the accumulation *)

\* C14: an accumulation never requests a page beyond its page cap, never
\* issues more fetches than the cap and never reports more pages processed
\* than the cap; and, its keycrm calls all returning, it answers.
C14_TerminatesWithinCap ==
    /\ [](IsAll(req["s1"]) =>
             /\ req["s1"].calls <= PageCap(req["s1"].kind)
             /\ req["s1"].pc = "fetching" =>
                   req["s1"].page <= PageCap(req["s1"].kind)
             /\ req["s1"].pages_processed <= PageCap(req["s1"].kind))
    /\ (req["s1"].pc \in {"fetching", "sleeping"}) ~> (req["s1"].pc = "done")

\* C14's case: the cap ended the loop, max not reached and no page empty
C14_Witness ==
    /\ Answered(req["s1"])
    /\ req["s1"].outcome = "ok"
    /\ req["s1"].calls = PageCap(req["s1"].kind)
    /\ req["s1"].pages_processed = PageCap(req["s1"].kind)
    /\ Len(req["s1"].acc) < req["s1"].max

\* the keycrm calls of an accumulation that have returned: one for each
\* page it collected, one for the empty page or the failure that ended it
Received(rec) ==
    Len(rec.log) + (IF rec.outcome \in {"empty", "fail"} THEN 1 ELSE 0)

\* C15: in an accumulation the n-th fetch asks for page n, and it is issued
\* when the n-1 pages before it have all been received and appended; the
\* request has one keycrm call pending while it awaits a page and none
\* otherwise.
C15_SequentialFetches ==
    \A r \in DOMAIN req :
        IsAll(req[r]) =>
            /\ req[r].calls - Received(req[r]) \in {0, 1}
            /\ (req[r].calls - Received(req[r]) = 1) <=> (req[r].pc = "fetching")
            /\ req[r].pc = "fetching" =>
                  /\ req[r].page = req[r].calls
                  /\ Len(req[r].log) = req[r].calls - 1
                  /\ Len(req[r].acc) = SumLens(req[r].log)
            /\ req[r].pc = "sleeping" =>
                  /\ req[r].page = req[r].calls + 1
                  /\ Len(req[r].log) = req[r].calls

\* C15's case: the third page is awaited, two pages having been appended
C15_Witness ==
    \E r \in DOMAIN req :
        /\ IsAll(req[r])
        /\ req[r].pc = "fetching"
        /\ req[r].calls = 3
        /\ req[r].page = 3
        /\ Len(req[r].log) = 2

---------------------------------------------------------------------------
(* Concurrent lookups and the contents of the cache *)

\* a step in which the fetch of slot r's lookup returns
GetArrives(r) ==
    /\ IsGet(req[r])
    /\ req[r].pc = "fetching"
    /\ req'[r].outcome = "ok"

\* what an answered lookup returned: the null behind a 404, else the record
Returned(rec) == IF rec.status = 404 THEN NullCompany ELSE rec.company

\* a lookup that missed, fetched and has answered
FetchedOk(rec) ==
    IsGet(rec) /\ rec.pc = "done" /\ rec.calls = 1 /\ rec.outcome = "ok"

\* C16: each lookup whose fetch returns stores what it fetched under its id,
\* over whatever is there, and changes no other entry; so when two lookups of
\* one id have both missed and both fetched, the cache holds one entry for
\* the id, the record of the one whose fetch returned last.
C16_LastStoreWins ==
    /\ [](\A r, o \in Slots :
             (r # o /\ FetchedOk(req[r]) /\ FetchedOk(req[o])
                /\ req[r].id = req[o].id) =>
                 /\ CacheHas(companiesCache, req[r].id)
                 /\ companiesCache[req[r].id] \in
                       {Returned(req[r]), Returned(req[o])})
    /\ [][\A r \in Slots :
             GetArrives(r) =>
                 /\ DOMAIN companiesCache' = DOMAIN companiesCache \cup {req[r].id}
                 /\ companiesCache'[req[r].id] = Returned(req'[r])
                 /\ \A k \in DOMAIN companiesCache \ {req[r].id} :
                       companiesCache'[k] = companiesCache[k]]_vars

\* C16's case: two lookups of one id both missed and fetched different
\* snapshots, and the cache holds one of the two
C16_Witness ==
    \E r, o \in Slots :
        /\ r # o
        /\ FetchedOk(req[r])
        /\ FetchedOk(req[o])
        /\ req[r].id = req[o].id
        /\ req[r].status = 200
        /\ req[o].status = 200
        /\ req[r].company # req[o].company
        /\ companiesCache[req[r].id] = req[r].company
        /\ Cardinality(DOMAIN companiesCache) = 1

\* a step in which slot r's /companies/all receives a non-empty page
BulkPageArrives(r) ==
    /\ req[r].kind = "companiesAll"
    /\ req[r].pc = "fetching"
    /\ Len(req'[r].log) = Len(req[r].log) + 1

\* C17 as stated: every key of the cache holds a record that keycrm returned
\* and that carries the key as its id; an entry is added or changed only by
\* the step in which a fetch or a page returns, and to what it returned.
C17_OnlyFetchedRecords ==
    /\ [](\A k \in DOMAIN companiesCache :
             /\ companiesCache[k] # NullCompany
             /\ companiesCache[k].id.v = k.v)
    /\ [][\A k \in DOMAIN companiesCache' :
             (~CacheHas(companiesCache, k) \/ companiesCache'[k] # companiesCache[k])
                 => \E r \in Slots :
                       \/ /\ GetArrives(r)
                          /\ req[r].id = k
                          /\ companiesCache'[k] = Returned(req'[r])
                       \/ /\ BulkPageArrives(r)
                          /\ \E i \in 1..Len(req'[r].log[Len(req'[r].log)]) :
                                /\ req'[r].log[Len(req'[r].log)][i] = companiesCache'[k]
                                /\ companiesCache'[k].id = k]_vars

\* the records received so far by a /companies/all, in order
ReceivedRecords(rec) == Concat(rec.log)

\* the last record of sq that carries id k
LastWithId(sq, k) ==
    sq[CHOOSE i \in 1..Len(sq) :
          /\ sq[i].id = k
          /\ \A j \in (i + 1)..Len(sq) : sq[j].id # k]

\* C18 as stated: every record of every page a /companies/all has received
\* has an entry in the cache under its id.
C18_Original ==
    \A r \in DOMAIN req :
        req[r].kind = "companiesAll" =>
            \A i \in 1..Len(ReceivedRecords(req[r])) :
                CacheHas(companiesCache, ReceivedRecords(req[r])[i].id)

\* C18: every record with a truthy id of every page a /companies/all has
\* received has an entry in the cache under its id, holding the last record
\* received with that id; also a record that the max truncation cuts off,
\* and a record of a page received before a later page failed.
C18_PrimesEveryIdentified ==
    \A r \in DOMAIN req :
        req[r].kind = "companiesAll" =>
            \A i \in 1..Len(ReceivedRecords(req[r])) :
                LET c == ReceivedRecords(req[r])[i]
                IN  IdTruthy(c.id) =>
                        /\ CacheHas(companiesCache, c.id)
                        /\ companiesCache[c.id] =
                              LastWithId(ReceivedRecords(req[r]), c.id)

\* C18's case: the answer was cut to max records, and a record that was cut
\* off is in the cache
C18_Witness ==
    \E r \in DOMAIN req :
        /\ Answered(req[r])
        /\ req[r].kind = "companiesAll"
        /\ Len(req[r].data) < Len(req[r].acc)
        /\ LET c == req[r].acc[Len(req[r].acc)]
           IN  /\ IdTruthy(c.id)
               /\ CacheHas(companiesCache, c.id)
               /\ companiesCache[c.id] = c

\* C19 as stated: the total of a successful /buyers/all or /companies/all
\* response is the number of records in its data.
C19_TotalIsDataLength ==
    \A r \in DOMAIN req :
        Answered(req[r]) => req[r].total = Len(req[r].data)

\* C20 as stated: the steps of a lookup that is answered 404 leave the cache
\* as it was, whatever keycrm answered.
C20_NotFoundLeavesCache ==
    [][\A r \in Slots :
          (/\ IsGet(req'[r])
           /\ req[r].pc # "done"
           /\ req'[r].pc = "done"
           /\ req'[r].status = 404) => companiesCache' = companiesCache]_vars

=============================================================================
